---- MODULE Spec2Model ----
(***************************************************************************)
(* Model of libmbsystrace/src/procfs.cpp: for_each_tid, the thread         *)
(* enumeration over /proc/<pid>/task, get_pid_status_field, the reader of  *)
(* /proc/<pid>/status, and ensure_procfs, which both run on their handle.  *)
(*                                                                         *)
(* Under Spec one behaviour is one call of for_each_tid.  The traced       *)
(* process is the environment: it may create threads while the call runs.  *)
(* The callback runs synchronously inside the scan loop, so one scanned    *)
(* directory entry (readdir, parse, membership test, callback, insert) is  *)
(* a single step.  Under FieldSpec one behaviour is one call of            *)
(* get_pid_status_field over a record whose lines fit the line buffer.     *)
(***************************************************************************)
EXTENDS Integers, Sequences, FiniteSets

(***************************************************************************)
(* Bounds of the model.                                                    *)
(***************************************************************************)
\* most entries besides "." and ".." in the initial directory listing
MaxInit == 2
\* threads the traced process creates while the call runs
MaxSpawn == 1
\* the history counter of completed passes saturates here
PassCap == 6
\* the history counters of callback invocations saturate here
CallCap == 6
\* calls of for_each_tid one after the other on the same pid
MaxCalls == 2
\* most lines of a status record
MaxLines == 3
\* failed readdir calls per call of for_each_tid
MaxReadFail == 1
\* events of the environment during the calls: a thread created, a thread
\* that exited, an id taken over, the exit of the process, a failed read
MaxChange == 1
\* entries the listing begins with, besides "." and "..", and events of the
\* environment, taken together
MaxSize == 3

(***************************************************************************)
(* Program constants.                                                      *)
(***************************************************************************)
\* char path[PATH_MAX]
PATH_MAX == 4096
\* for (int it = 0; it < 2; ++it)
LoopLimit == 2

(***************************************************************************)
(* Directory entry names are sequences of characters.                      *)
(***************************************************************************)
Dot == <<".">>
DotDot == <<".", ".">>
\* names an initial listing is drawn from, besides "." and ".."
InitNames == {<<"1">>, <<"2">>, <<"x">>, <<"-", "1">>}
\* names of the threads the traced process may create during the call
SpawnNames == {<<"1", "0">>}
AllNames == {Dot, DotDot} \cup InitNames \cup SpawnNames

Pids == {1, 2147483647}
\* what one invocation of func returns: a claim decision or an error
CbErrors == {"EPERM", "ESRCH"}
CbOutcomes == {"true", "false"} \cup CbErrors

Digits == {"0", "1", "2", "3", "4", "5", "6", "7", "8", "9"}

DigitVal(c) ==
    CASE c = "0" -> 0 [] c = "1" -> 1 [] c = "2" -> 2 [] c = "3" -> 3
      [] c = "4" -> 4 [] c = "5" -> 5 [] c = "6" -> 6 [] c = "7" -> 7
      [] c = "8" -> 8 [] c = "9" -> 9

RECURSIVE DecValue(_)
DecValue(s) ==
    IF s = <<>> THEN 0
    ELSE 10 * DecValue(SubSeq(s, 1, Len(s) - 1)) + DigitVal(s[Len(s)])

Whitespace == {" ", "\t"}

\* the text without its leading whitespace
RECURSIVE SkipSpace(_)
SkipSpace(s) ==
    IF s # <<>> /\ s[1] \in Whitespace THEN SkipSpace(Tail(s)) ELSE s

Signs == {"-", "+"}

\* str_to_num(text, 10, out) with out a pid_t, a signed integer: the numeric
\* conversion of the C library, that is leading whitespace, an optional sign
\* and decimal digits up to the end of the text, or failure with errno
StrToNum(s) ==
    LET d == SkipSpace(s)
        signed == d # <<>> /\ d[1] \in Signs
        digits == IF signed THEN Tail(d) ELSE d
    IN IF digits # <<>> /\ \A i \in 1..Len(digits) : digits[i] \in Digits
       THEN [ok |-> TRUE,
             val |-> IF signed /\ d[1] = "-" THEN 0 - DecValue(digits)
                     ELSE DecValue(digits),
             err |-> "none"]
       ELSE [ok |-> FALSE, val |-> 0, err |-> "EINVAL"]

\* every thread id a listed name can stand for
Tids == {StrToNum(n).val : n \in {m \in AllNames : StrToNum(m).ok}}

RECURSIVE NumDigits(_)
NumDigits(n) == IF n < 10 THEN 1 ELSE 1 + NumDigits(n \div 10)

\* snprintf(path, sizeof(path), "/proc/%d/task", pid): characters it would write
TaskPathLen(p) == 6 + NumDigits(p) + 5

\* snprintf(...) >= static_cast<int>(sizeof(path))
PathTooLong(len) == len >= PATH_MAX

\* errno left by a failed opendir or fopen, and by a failed fstat
OpenErrnos == {"ENOENT", "EMFILE"}
StatErrnos == {"EBADF", "EIO"}

\* ensure_procfs(fd), given what fstat answers for the descriptor: statErr is
\* "none" when fstat succeeds, else the errno it leaves
EnsureProcfs(fd, statErr, major) ==
    IF fd < 0 THEN "EINVAL"
    ELSE IF statErr # "none" THEN statErr
    ELSE IF major # 0 THEN "EIO"
    ELSE "ok"

(***************************************************************************)
(* Results: oc::result<bool>.                                              *)
(***************************************************************************)
NoResult == [kind |-> "none", val |-> FALSE, err |-> "none"]
Failure(e) == [kind |-> "err", val |-> FALSE, err |-> e]
\* return oc::success(): the bool of the result is value-initialised
Success == [kind |-> "ok", val |-> FALSE, err |-> "none"]

Sat(n, cap) == IF n < cap THEN n + 1 ELSE n

RECURSIVE Range(_)
Range(s) == IF s = <<>> THEN {} ELSE {s[Len(s)]} \cup Range(SubSeq(s, 1, Len(s) - 1))

\* listings without repeated names, at most n entries long
RECURSIVE Listings(_)
Listings(n) ==
    IF n = 0 THEN {<<>>}
    ELSE LET shorter == Listings(n - 1)
         IN shorter \cup {Append(l, e) : l \in {k \in shorter : Len(k) = n - 1},
                                          e \in InitNames}

\* what the directory lists: "." and "..", then distinct names in any order
DistinctListings(n) ==
    {<<Dot, DotDot>> \o l : l \in {k \in Listings(n) : Cardinality(Range(k)) = Len(k)}}

(***************************************************************************)
(* The status record read by get_pid_status_field: lines of characters.    *)
(***************************************************************************)
FieldNames == {<<"T">>, <<"T", "g">>}
StatusLines ==
    { <<"T", ":", "\t", "1", "2", "\n">>,
      <<"T", "g", ":", "\t", "7", "\n">>,
      <<"T", ":", "a", "\n">>,
      <<"T", ":", "\t", "3">>,
      <<"T", "\n">>,
      <<"N", ":", "\t", "5", "\n">> }
ReadErrnos == {"EIO", "EISDIR"}

\* records without repeated lines, at most n lines long
RECURSIVE LineSeqs(_)
LineSeqs(n) ==
    IF n = 0 THEN {<<>>}
    ELSE LET shorter == LineSeqs(n - 1)
         IN shorter \cup {Append(l, e) : l \in {k \in shorter : Len(k) = n - 1},
                                          e \in StatusLines}

Records(n) == {l \in LineSeqs(n) : Cardinality(Range(l)) = Len(l)}

\* snprintf(path, sizeof(path), "/proc/%d/status", pid): characters it would write
StatusPathLen(p) == 6 + NumDigits(p) + 7

\* starts_with(sv, name)
StartsWith(sv, name) ==
    Len(sv) >= Len(name) /\ SubSeq(sv, 1, Len(name)) = name

\* mutant: the character after the name is not looked at
MatchesPrefixOnly(sv, name) == Len(sv) > Len(name) /\ StartsWith(sv, name)

\* sv.size() > name.size() && starts_with(sv, name) && sv[name.size()] == ':'
Matches(sv, name) ==
    Len(sv) > Len(name) /\ StartsWith(sv, name) /\ sv[Len(name) + 1] = ":"

\* sv.remove_prefix(name.size() + 1), then a trailing '\n' is removed
FieldValue(sv, name) ==
    LET rest == SubSeq(sv, Len(name) + 2, Len(sv))
    IN IF rest # <<>> /\ rest[Len(rest)] = "\n"
       THEN SubSeq(rest, 1, Len(rest) - 1)
       ELSE rest

(***************************************************************************)
(* Results of get_pid_status_field: oc::result<pid_t>.                     *)
(***************************************************************************)
NoValue == [kind |-> "none", val |-> 0, err |-> "none"]
ValueFailure(e) == [kind |-> "err", val |-> 0, err |-> e]
Value(v) == [kind |-> "ok", val |-> v, err |-> "none"]

\* what ensure_procfs was asked and what it answered; res is "none" before
NoAuth == [res |-> "none", fd |-> 0, statOk |-> TRUE, major |-> 0]

VARIABLES
    retry,      \* argument retry_until_no_more
    dir,        \* the names /proc/<pid>/task lists now, in listing order
    stream,     \* the names the open DIR stream yields, in order
    cursor,     \* entries of stream already returned by readdir
    dirOpen,    \* the ScopedDIR holds an open DIR
    spawned,    \* threads created since the call began
    departed,   \* threads that exited since the call began
    listed,     \* history: entries listed besides "." and ".." at the start
    pc,         \* "open", "auth", "scan" or "done"; "idle" when not called
    it,         \* loop variable it
    found,      \* found_new_thread
    tids,       \* std::unordered_set<pid_t> tids
    result,     \* what the call returned
    calls,      \* history: invocations of func per thread id
    declined,   \* history: invocations of func per id that returned false
    passes,     \* history: completed passes
    lastProd,   \* history: found_new_thread at the end of the last completed pass
    prevProd,   \* history: the same for the pass before it
    passStart,  \* history: cursor when the current pass began
    cbErr,      \* history: the error func returned, or "none"
    reads,      \* history: entries returned by readdir
    readFails,  \* history: readdir calls that failed (NULL with errno set)
    cbSpawn,    \* history: per created name, the pass it appeared in after an
                \* invocation of func, or -1
    claimed,    \* history: ids for which func returned true in this call
    auth,       \* history: the call of ensure_procfs and its answer
    opens,      \* history: calls of opendir or fopen
    callNo,     \* which call of for_each_tid on this pid this is
    others,     \* ids in the tids of other calls, earlier or running beside
    reborn,     \* ids in tids whose thread exited and whose id a new thread,
                \* not yet offered to func, took over
    fname,      \* get_pid_status_field: argument name
    lines,      \* the lines of /proc/<pid>/status
    fpc,        \* "open", "auth", "scan" or "done"; "idle" when not called
    lineNo,     \* lines fgets has returned
    fileOpen,   \* the ScopedFILE holds an open FILE
    readErr,    \* ferror(fp)
    fresult     \* what get_pid_status_field returned

args == <<retry, listed>>
env == <<dir, stream, cursor, dirOpen, spawned, departed>>
prog == <<pc, it, found, tids, result>>
hist == <<calls, declined, passes, lastProd, prevProd, passStart, cbErr, reads,
          readFails, cbSpawn>>
\* other calls of for_each_tid, and the threads behind the listed ids
beside == <<callNo, others, reborn>>
\* the state of get_pid_status_field
fld == <<fname, lines, fpc, lineNo, fileOpen, readErr, fresult>>
vars == <<args, env, prog, hist, claimed, auth, opens, beside, fld>>

\* get_pid_status_field is not running
FieldIdle ==
    /\ fname = <<"T">>
    /\ lines = <<>>
    /\ fpc = "idle"
    /\ lineNo = 0
    /\ fileOpen = FALSE
    /\ readErr = FALSE
    /\ fresult = NoValue

\* the locals and counters of a call of for_each_tid that has just begun
Fresh ==
    /\ stream = <<>>
    /\ cursor = 0
    /\ dirOpen = FALSE
    /\ it = 0
    /\ found = FALSE
    /\ tids = {}
    /\ result = NoResult
    /\ calls = [t \in Tids |-> 0]
    /\ declined = [t \in Tids |-> 0]
    /\ passes = 0
    /\ lastProd = FALSE
    /\ prevProd = FALSE
    /\ passStart = 0
    /\ cbErr = "none"
    /\ reads = 0
    /\ readFails = 0
    /\ cbSpawn = [n \in SpawnNames |-> -1]
    /\ claimed = {}
    /\ auth = NoAuth
    /\ opens = 0

Init ==
    /\ retry \in BOOLEAN
    /\ dir \in DistinctListings(MaxInit)
    /\ listed = Len(dir) - 2
    /\ spawned = 0
    /\ departed = 0
    /\ pc = "open"
    /\ Fresh
    /\ callNo = 1
    /\ others = {}
    /\ reborn = {}
    /\ FieldIdle

\* mutant: the handle is not closed when the function is left
ScopedCloseLeaks(h) == h

\* ~unique_ptr of ScopedDIR and ScopedFILE: leaving the function closes the handle
ScopedClose(h) == FALSE

Return(r) ==
    /\ pc' = "done"
    /\ result' = r
    /\ dirOpen' = ScopedClose(dirOpen)

(***************************************************************************)
(* The decisions of the scan loop.                                         *)
(***************************************************************************)
\* strcmp(ent->d_name, ".") == 0 || strcmp(ent->d_name, "..") == 0
IsDotEntry(name) == name = Dot \/ name = DotDot

\* mutant: the membership test is dropped
NotSeenAlways(tid, set) == TRUE

\* mutant: one set is shared by all calls
NotSeenShared(tid, set) == tid \notin set \cup others

\* tids.find(tid) == tids.end()
NotSeen(tid, set) == tid \notin set

\* mutant: an error of func is taken for a declined id
CbAbortsNever(o) == FALSE

\* OUTCOME_TRY(add_to_list, func(tid)): an error of func leaves the function
CbAborts(o) == o \in CbErrors

\* mutant: the id is inserted whatever func answered
AddToListAlways(o) == TRUE

\* mutant: the id is never inserted
AddToListNever(o) == FALSE

\* if (add_to_list)
AddToList(o) == o = "true"

\* mutant: rewinddir after every pass
RewindsAlways(f, r) == TRUE

\* if (found_new_thread && retry_until_no_more) rewinddir(dp.get())
Rewinds(f, r) == f /\ r

\* mutant: a productive pass does not reset the loop variable
NextItNoReset(i, f, r) == i + 1

\* mutant: the reset ignores retry_until_no_more
NextItIgnoresMode(i, f, r) == IF f THEN 0 ELSE i + 1

\* mutant: the reset ignores found_new_thread
NextItAlwaysResets(i, f, r) == IF r THEN 0 ELSE i + 1

\* it = -1 under the same condition, then ++it of the for statement
NextIt(i, f, r) == IF f /\ r THEN 0 ELSE i + 1

\* it < 2
LoopContinues(i) == i < LoopLimit

\* mutant: the answer of ensure_procfs is ignored
AuthAbortsNever(a) == FALSE

\* OUTCOME_TRYV(ensure_procfs(...)): a failed check leaves the function
AuthAborts(a) == a # "ok"

(***************************************************************************)
(* Lines 112-122: format the path and open the directory.  Whether opendir *)
(* succeeds, and the errno it leaves when it fails, is the environment's;  *)
(* the directory of a process that is gone cannot be opened.               *)
(***************************************************************************)
\* the traced process has exited: /proc/<pid>/task lists nothing any more
Gone == dir = <<>>

\* what the environment has done so far: threads created, threads that
\* exited, ids taken over by a new thread, the exit of the process, and
\* failed reads of this call
Events ==
    spawned + departed + Cardinality(reborn) + readFails
    + (IF Gone THEN 1 ELSE 0)

\* the environment may act once more within the bounds of the model
MayChange == Events < MaxChange /\ listed + Events < MaxSize

Open ==
    /\ pc = "open"
    /\ \E pid \in Pids, openErr \in {"none"} \cup OpenErrnos :
         IF PathTooLong(TaskPathLen(pid))
         THEN Return(Failure("ENAMETOOLONG"))
              /\ UNCHANGED <<stream, opens>>
         ELSE /\ Gone => openErr # "none"
              /\ opens' = opens + 1
              /\ IF openErr # "none"
                 THEN Return(Failure(openErr))
                      /\ UNCHANGED stream
                 ELSE /\ dirOpen' = TRUE
                      /\ stream' = dir
                      /\ pc' = "auth"
                      /\ UNCHANGED result
    /\ UNCHANGED <<args, dir, cursor, spawned, departed, it, found, tids>>
    /\ UNCHANGED <<hist, claimed, auth, beside, fld>>

(***************************************************************************)
(* Lines 124-135: ensure_procfs on dirfd(dp), then the first pass begins.  *)
(* What fstat answers for the descriptor is the environment's.             *)
(***************************************************************************)
Auth ==
    /\ pc = "auth"
    /\ \E statErr \in {"none"} \cup StatErrnos, major \in {0, 8} :
         LET a == EnsureProcfs(3, statErr, major)
         IN /\ auth' = [res |-> a, fd |-> 3, statOk |-> (statErr = "none"),
                        major |-> major]
            /\ IF AuthAborts(a)
               THEN Return(Failure(a))
               ELSE /\ pc' = "scan"
                    /\ UNCHANGED <<result, dirOpen>>
    /\ cursor' = 0
    /\ it' = 0
    /\ found' = FALSE
    /\ passStart' = 0
    /\ UNCHANGED <<args, dir, stream, spawned, departed, tids>>
    /\ UNCHANGED <<calls, declined, passes, lastProd, prevProd, cbErr, reads,
                   readFails, cbSpawn>>
    /\ UNCHANGED <<claimed, opens, beside, fld>>

\* the thread ids a listing names
ListedTids(d) ==
    {StrToNum(n).val : n \in {m \in Range(d) : ~IsDotEntry(m) /\ StrToNum(m).ok}}
ListedNow == ListedTids(dir)

\* readdir returned an entry: the entry under the cursor
CanRead == pc = "scan" /\ cursor < Len(stream)
Entry == stream[cursor + 1]

Consume ==
    /\ cursor' = cursor + 1
    /\ reads' = Sat(reads, CallCap)

\* lines 142-144: "." and ".." are skipped
ScanSkip ==
    /\ CanRead
    /\ IsDotEntry(Entry)
    /\ Consume
    /\ UNCHANGED <<args, dir, stream, dirOpen, spawned, departed, prog>>
    /\ UNCHANGED <<calls, declined, passes, lastProd, prevProd, passStart, cbErr,
                   readFails, cbSpawn>>
    /\ UNCHANGED <<claimed, auth, opens, beside, fld>>

\* lines 145-147: a name that is no number ends the call
ScanParseError ==
    /\ CanRead
    /\ ~IsDotEntry(Entry)
    /\ ~StrToNum(Entry).ok
    /\ Consume
    /\ Return(Failure(StrToNum(Entry).err))
    /\ UNCHANGED <<args, dir, stream, spawned, departed, it, found, tids>>
    /\ UNCHANGED <<calls, declined, passes, lastProd, prevProd, passStart, cbErr,
                   readFails, cbSpawn>>
    /\ UNCHANGED <<claimed, auth, opens, beside, fld>>

\* line 149, false branch: the id is in tids already
ScanKnown ==
    /\ CanRead
    /\ ~IsDotEntry(Entry)
    /\ StrToNum(Entry).ok
    /\ ~NotSeen(StrToNum(Entry).val, tids)
    /\ Consume
    /\ UNCHANGED <<args, dir, stream, dirOpen, spawned, departed, prog>>
    /\ UNCHANGED <<calls, declined, passes, lastProd, prevProd, passStart, cbErr,
                   readFails, cbSpawn>>
    /\ UNCHANGED <<claimed, auth, opens, beside, fld>>

\* lines 149-156: func is invoked for the id and answers o
ScanCallback(o) ==
    /\ CanRead
    /\ ~IsDotEntry(Entry)
    /\ StrToNum(Entry).ok
    /\ LET tid == StrToNum(Entry).val
       IN /\ NotSeen(tid, tids)
          /\ Consume
          /\ calls' = [calls EXCEPT ![tid] = Sat(@, CallCap)]
          /\ declined' = [declined EXCEPT ![tid] = IF o = "false" THEN Sat(@, CallCap) ELSE @]
          /\ cbErr' = IF o \in CbErrors THEN o ELSE cbErr
          /\ claimed' = IF o = "true" THEN claimed \cup {tid} ELSE claimed
          /\ reborn' = reborn \ {tid}
          /\ IF CbAborts(o)
             THEN /\ Return(Failure(o))
                  /\ UNCHANGED <<found, tids>>
             ELSE /\ found' = (found \/ AddToList(o))
                  /\ tids' = IF AddToList(o) THEN tids \cup {tid} ELSE tids
                  /\ UNCHANGED <<pc, result, dirOpen>>
    /\ UNCHANGED <<args, dir, stream, spawned, departed, it>>
    /\ UNCHANGED <<passes, lastProd, prevProd, passStart, readFails, cbSpawn>>
    /\ UNCHANGED <<auth, opens, callNo, others, fld>>

\* lines 139, 157-165: readdir returned NULL, the pass is over.  NULL is the
\* end of the stream or, with failed, a read that failed before it: errno is
\* never looked at, and the failed read returns no entry.
EndPass(failed) ==
    /\ pc = "scan"
    /\ IF failed
       THEN cursor < Len(stream) /\ readFails < MaxReadFail
            /\ MayChange
       ELSE cursor >= Len(stream)
    /\ readFails' = IF failed THEN readFails + 1 ELSE readFails
    /\ LET rewind == Rewinds(found, retry)
           nextIt == NextIt(it, found, retry)
           pos    == IF rewind THEN 0 ELSE cursor
       IN /\ stream' = IF rewind THEN dir ELSE stream
          /\ cursor' = pos
          /\ it' = nextIt
          /\ IF LoopContinues(nextIt)
             THEN /\ found' = FALSE
                  /\ passStart' = pos
                  /\ UNCHANGED <<pc, result, dirOpen>>
             ELSE /\ Return(Success)
                  /\ UNCHANGED <<found, passStart>>
    /\ passes' = Sat(passes, PassCap)
    /\ prevProd' = lastProd
    /\ lastProd' = found
    /\ UNCHANGED <<args, dir, spawned, departed, tids>>
    /\ UNCHANGED <<calls, declined, cbErr, reads, cbSpawn>>
    /\ UNCHANGED <<claimed, auth, opens, beside, fld>>

(***************************************************************************)
(* The traced process creates a thread while the call runs.  Whether a     *)
(* readdir without rewinddir returns an entry added after the last         *)
(* opendir or rewinddir is unspecified: either the open stream yields the  *)
(* new name (visible) or only a rewound stream does.                       *)
(***************************************************************************)
Invoked == \E t \in Tids : calls[t] > 0

Spawn(n, visible) ==
    /\ pc = "scan"
    /\ ~Gone
    /\ spawned < MaxSpawn
    /\ MayChange
    /\ n \notin Range(dir)
    /\ dir' = Append(dir, n)
    /\ stream' = IF visible THEN Append(stream, n) ELSE stream
    /\ spawned' = spawned + 1
    /\ UNCHANGED departed
    /\ cbSpawn' = [cbSpawn EXCEPT ![n] = IF Invoked THEN passes ELSE -1]
    /\ UNCHANGED <<args, cursor, dirOpen, prog>>
    /\ UNCHANGED <<calls, declined, passes, lastProd, prevProd, passStart, cbErr,
                   reads, readFails>>
    /\ UNCHANGED <<claimed, auth, opens, beside, fld>>

(***************************************************************************)
(* The traced process exits and is reaped while the call runs: its task    *)
(* directory lists nothing any more.  What the open stream still returns   *)
(* is not specified: readdir hands out entries it read ahead before the    *)
(* exit, so the stream ends after any number k of its entries from the     *)
(* cursor on; a rewound stream is empty.                                   *)
(***************************************************************************)
Exit(k) ==
    /\ pc \in {"auth", "scan"}
    /\ ~Gone
    /\ MayChange
    /\ k \in cursor..Len(stream)
    /\ dir' = <<>>
    /\ stream' = SubSeq(stream, 1, k)
    /\ UNCHANGED <<args, cursor, dirOpen, spawned, departed, prog>>
    /\ UNCHANGED <<hist, claimed, auth, opens, beside, fld>>

\* the listing d without the name n
RECURSIVE Without(_, _)
Without(d, n) ==
    IF d = <<>> THEN <<>>
    ELSE IF d[1] = n THEN Without(Tail(d), n)
    ELSE <<d[1]>> \o Without(Tail(d), n)

(***************************************************************************)
(* One thread of the traced process exits while the process lives on: the  *)
(* directory no longer lists its id.  An entry the stream has not returned *)
(* yet is either still returned (readAhead) or gone from the stream too.   *)
(***************************************************************************)
ThreadExit(n, readAhead) ==
    /\ pc \in {"auth", "scan"}
    /\ MayChange
    /\ n \in Range(dir)
    /\ ~IsDotEntry(n) /\ StrToNum(n).ok
    /\ dir' = Without(dir, n)
    /\ stream' = IF readAhead THEN stream
                 ELSE SubSeq(stream, 1, cursor)
                      \o Without(SubSeq(stream, cursor + 1, Len(stream)), n)
    /\ departed' = departed + 1
    /\ UNCHANGED <<args, cursor, dirOpen, spawned, prog>>
    /\ UNCHANGED <<hist, claimed, auth, opens, beside, fld>>

Step ==
    \/ Open
    \/ Auth
    \/ ScanSkip
    \/ ScanParseError
    \/ ScanKnown
    \/ \E o \in CbOutcomes : ScanCallback(o)
    \/ \E failed \in BOOLEAN : EndPass(failed)

Next ==
    \/ Step
    \/ \E n \in SpawnNames, visible \in BOOLEAN : Spawn(n, visible)
    \/ \E k \in 0..Len(stream) : Exit(k)
    \/ \E n \in AllNames, readAhead \in BOOLEAN : ThreadExit(n, readAhead)

Spec == Init /\ [][Next]_vars

\* the caller's thread keeps running for_each_tid until it returns
LiveSpec == Spec /\ WF_vars(Step)

(***************************************************************************)
(* get_pid_status_field(pid, name), lines 59-101.                          *)
(***************************************************************************)
FieldInit ==
    /\ retry = FALSE
    /\ dir = <<Dot, DotDot>>
    /\ listed = 0
    /\ spawned = 0
    /\ departed = 0
    /\ pc = "idle"
    /\ Fresh
    /\ callNo = 1
    /\ others = {}
    /\ reborn = {}
    /\ fname \in FieldNames
    /\ lines \in Records(MaxLines)
    /\ fpc = "open"
    /\ lineNo = 0
    /\ fileOpen = FALSE
    /\ readErr = FALSE
    /\ fresult = NoValue

FieldReturn(r) ==
    /\ fpc' = "done"
    /\ fresult' = r
    /\ fileOpen' = ScopedClose(fileOpen)

\* lines 61-71: format the path and open the file
FieldOpen ==
    /\ fpc = "open"
    /\ \E pid \in Pids, openErr \in {"none"} \cup OpenErrnos :
         IF PathTooLong(StatusPathLen(pid))
         THEN FieldReturn(ValueFailure("ENAMETOOLONG"))
              /\ UNCHANGED opens
         ELSE /\ opens' = opens + 1
              /\ IF openErr # "none"
                 THEN FieldReturn(ValueFailure(openErr))
                 ELSE /\ fileOpen' = TRUE
                      /\ fpc' = "auth"
                      /\ UNCHANGED fresult
    /\ UNCHANGED <<fname, lines, lineNo, readErr>>
    /\ UNCHANGED <<args, env, prog, hist, claimed, auth, beside>>

\* lines 73-76: ensure_procfs on fileno(fp)
FieldAuth ==
    /\ fpc = "auth"
    /\ \E statErr \in {"none"} \cup StatErrnos, major \in {0, 8} :
         LET a == EnsureProcfs(3, statErr, major)
         IN /\ auth' = [res |-> a, fd |-> 3, statOk |-> (statErr = "none"),
                        major |-> major]
            /\ IF AuthAborts(a)
               THEN FieldReturn(ValueFailure(a))
               ELSE /\ fpc' = "scan"
                    /\ UNCHANGED <<fresult, fileOpen>>
    /\ UNCHANGED <<fname, lines, lineNo, readErr>>
    /\ UNCHANGED <<args, env, prog, hist, claimed, opens, beside>>

\* lines 78-94: fgets returned a line
FieldLine ==
    /\ fpc = "scan"
    /\ lineNo < Len(lines)
    /\ lineNo' = lineNo + 1
    /\ LET sv == lines[lineNo + 1]
           num == StrToNum(FieldValue(sv, fname))
       IN IF Matches(sv, fname)
          THEN IF num.ok
               THEN FieldReturn(Value(num.val))
               ELSE FieldReturn(ValueFailure(num.err))
          ELSE UNCHANGED <<fpc, fresult, fileOpen>>
    /\ UNCHANGED <<fname, lines, readErr>>
    /\ UNCHANGED <<args, env, prog, hist, claimed, auth, opens, beside>>

\* mutant: a missing field reads as zero
FieldNotFoundIsZero == Value(0)

\* return std::errc::io_error, line 99
FieldNotFound == ValueFailure("EIO")

\* lines 78, 96-100: fgets returned NULL at the end of the file
FieldEof ==
    /\ fpc = "scan"
    /\ lineNo = Len(lines)
    /\ FieldReturn(FieldNotFound)
    /\ UNCHANGED <<fname, lines, lineNo, readErr>>
    /\ UNCHANGED <<args, env, prog, hist, claimed, auth, opens, beside>>

\* lines 78, 96-97: fgets returned NULL because the read failed with errno e
FieldReadError(e) ==
    /\ fpc = "scan"
    /\ readErr' = TRUE
    /\ FieldReturn(ValueFailure(e))
    /\ UNCHANGED <<fname, lines, lineNo>>
    /\ UNCHANGED <<args, env, prog, hist, claimed, auth, opens, beside>>

FieldNext ==
    \/ FieldOpen
    \/ FieldAuth
    \/ FieldLine
    \/ FieldEof
    \/ \E e \in ReadErrnos : FieldReadError(e)

FieldSpec == FieldInit /\ [][FieldNext]_vars

\* one call of either entry point
CallSpec == (Init \/ FieldInit) /\ [][Next \/ FieldNext]_vars

(***************************************************************************)
(* Calls of for_each_tid one after the other on the same pid, and calls    *)
(* that run beside this one.  Another call has its own tids; of it only    *)
(* the ids in that set are kept.                                           *)
(***************************************************************************)
\* mutant: tids outlives the call
FirstTidsKept(old) == old

\* std::unordered_set<pid_t> tids: empty when the call begins
FirstTids(old) == {}

\* the call has returned and the caller calls for_each_tid again
Restart ==
    /\ pc = "done"
    /\ callNo < MaxCalls
    /\ callNo' = callNo + 1
    /\ others' = others \cup tids
    /\ retry' \in BOOLEAN
    /\ listed' = listed
    /\ pc' = "open"
    /\ tids' = FirstTids(tids)
    /\ stream' = <<>>
    /\ cursor' = 0
    /\ dirOpen' = FALSE
    /\ it' = 0
    /\ found' = FALSE
    /\ result' = NoResult
    /\ calls' = [t \in Tids |-> 0]
    /\ declined' = [t \in Tids |-> 0]
    /\ passes' = 0
    /\ lastProd' = FALSE
    /\ prevProd' = FALSE
    /\ passStart' = 0
    /\ cbErr' = "none"
    /\ reads' = 0
    /\ readFails' = 0
    /\ cbSpawn' = [n \in SpawnNames |-> -1]
    /\ claimed' = {}
    /\ auth' = NoAuth
    /\ opens' = 0
    /\ UNCHANGED <<dir, spawned, departed, reborn, fld>>

\* a call running beside this one has func claim id t
OtherCallClaims(t) ==
    /\ pc \in {"open", "auth", "scan"}
    /\ t \in ListedNow
    /\ t \notin others
    /\ others' = others \cup {t}
    /\ UNCHANGED <<args, env, prog, hist, claimed, auth, opens, callNo, reborn, fld>>

SeqNext ==
    \/ Step
    \/ \E k \in 0..Len(stream) : Exit(k)
    \/ \E n \in AllNames, readAhead \in BOOLEAN : ThreadExit(n, readAhead)
    \/ Restart
    \/ \E t \in Tids : OtherCallClaims(t)

\* several calls of for_each_tid on the same pid, whose threads may exit
SeqSpec == Init /\ [][SeqNext]_vars

(***************************************************************************)
(* Lines 130-133: a thread whose id is in tids exits and a new thread      *)
(* takes the same id; the directory lists the same name as before.         *)
(***************************************************************************)
Reuse(t) ==
    /\ pc = "scan"
    /\ t \in tids
    /\ t \in ListedNow
    /\ t \notin reborn
    /\ MayChange
    /\ reborn' = reborn \cup {t}
    /\ UNCHANGED <<args, env, prog, hist, claimed, auth, opens, callNo, others, fld>>

ReuseNext ==
    \/ Next
    \/ \E t \in Tids : Reuse(t)

ReuseSpec == Init /\ [][ReuseNext]_vars

TypeOK ==
    /\ pc \in {"idle", "open", "auth", "scan", "done"}
    /\ fpc \in {"idle", "open", "auth", "scan", "done"}
    /\ it \in 0..LoopLimit
    /\ cursor \in 0..Len(stream)
    /\ lineNo \in 0..Len(lines)
    /\ tids \subseteq Tids
    /\ passes \in 0..PassCap
    /\ readFails \in 0..MaxReadFail
    /\ departed \in 0..MaxChange
    /\ result.kind \in {"none", "ok", "err"}
    /\ fresult.kind \in {"none", "ok", "err"}

(***************************************************************************)
(* Vocabulary of the claims.                                               *)
(***************************************************************************)
Succeeded == pc = "done" /\ result.kind = "ok"
\* no thread was created, none exited and the process did not exit
Unchanging == spawned = 0 /\ departed = 0 /\ ~Gone
\* every NULL of readdir was the end of the directory
ReadsAnswered == readFails = 0
AlwaysClaimed == cbErr = "none" /\ \A t \in Tids : declined[t] = 0
NeverClaimed == cbErr = "none" /\ tids = {}

\* C1: once func has returned true for an id (the id is in tids), func is not
\* invoked for that id again in the call; and with a func that always returns
\* true over an unchanging directory whose reads all succeed, a successful
\* call has invoked func exactly once for every listed id.
C1_ClaimedNeverReoffered ==
    /\ [][\A t \in Tids : t \in tids => calls'[t] = calls[t]]_vars
    /\ [](Succeeded /\ Unchanging /\ ReadsAnswered /\ AlwaysClaimed
            => \A t \in ListedTids(dir) : calls[t] = 1)

C1_Witness ==
    /\ Succeeded /\ retry /\ Unchanging /\ ReadsAnswered /\ AlwaysClaimed
    /\ tids = {1, 2}
    /\ passes = 3

\* C2 as stated: func is invoked for every id at most once during the call,
\* whatever func answers.
C2_AtMostOncePerCall == \A t \in Tids : calls[t] <= 1

\* C2 as amended: every invocation of func for an id but the last one returned
\* false: an id is offered again only after func declined it, never after func
\* claimed it or failed.
C2_RepeatsOnlyAfterDecline == \A t \in Tids : calls[t] <= declined[t] + 1

C2_Witness == \E t \in Tids : calls[t] = 2 /\ declined[t] = 1 /\ t \in tids

\* C3: with retry_until_no_more, a successful return comes only after two
\* consecutive passes that added nothing; a productive pass resets the count
\* of such passes to zero and is followed by another scan from the start.
C3_FixpointTwoIdlePasses ==
    retry =>
        /\ Succeeded => passes >= 2 /\ ~lastProd /\ ~prevProd
        /\ (passes >= 1 /\ lastProd)
             => it = 0 /\ passStart = 0 /\ ~Succeeded
                /\ (pc = "scan" \/ result.kind = "err")

C3_Witness ==
    /\ Succeeded /\ retry
    /\ Cardinality(tids) >= 2
    /\ Unchanging
    /\ \E t \in tids : declined[t] = 1
    /\ passes >= 4

\* C4: without retry_until_no_more, a call that does not fail performs exactly
\* two passes, productive or not, and no call performs more.
C4_ExactlyTwoPasses ==
    ~retry => /\ passes <= 2
              /\ Succeeded => passes = 2

C4_Witness == Succeeded /\ ~retry /\ prevProd /\ passes = 2

\* C5 as stated: every pass after the first starts at the first entry of the
\* directory.
C5_EveryPassFromStart == (pc = "scan" /\ passes >= 1) => passStart = 0

\* C6: over the unchanging directory that lists exactly 1, 2, "." and "..",
\* whose reads all succeed, without retry_until_no_more and with a func that
\* always returns false, a successful call has invoked func exactly twice in
\* total.
C6_TwoInvocationsInTotal ==
    ( /\ Succeeded /\ ~retry /\ Unchanging /\ ReadsAnswered /\ NeverClaimed
      /\ Range(dir) = {Dot, DotDot, <<"1">>, <<"2">>} )
    => /\ calls[1] + calls[2] = 2
       /\ \A t \in Tids \ {1, 2} : calls[t] = 0

C6_Witness ==
    /\ Succeeded /\ ~retry /\ Unchanging /\ ReadsAnswered /\ NeverClaimed
    /\ Range(dir) = {Dot, DotDot, <<"1">>, <<"2">>}
    /\ calls[1] = 1 /\ calls[2] = 1
    /\ passes = 2

\* C7: when an invocation of func returns an error, the call has returned that
\* same error, and from then on no entry is read, func is not invoked, no pass
\* is started and tids does not change.
C7_CallbackErrorAborts ==
    /\ [](cbErr # "none" => pc = "done" /\ result = Failure(cbErr))
    /\ [][cbErr # "none"
            => UNCHANGED <<cursor, reads, calls, passes, it, tids>>]_vars

C7_Witness ==
    /\ cbErr # "none"
    /\ cursor < Len(stream)
    /\ tids # {}
    /\ passes >= 1

\* C8 as stated: the boolean of a successful return tells whether the final
\* pass added an id to tids.
C8_ReturnsLastPassProductive == Succeeded => result.val = lastProd

\* C9 as stated: with retry_until_no_more, an id that appears in the directory
\* after an invocation of func, during a pass that is not the last, has been
\* offered to func by the time the call returns successfully.
C9_NewIdOfferedBeforeReturn ==
    (retry /\ Succeeded)
    => \A n \in SpawnNames :
         (cbSpawn[n] >= 0 /\ cbSpawn[n] < passes - 1)
         => calls[StrToNum(n).val] > 0

\* C10: with retry_until_no_more, once the traced process stops creating
\* threads and every invocation of func returns, the call returns.
C10_Terminates == [](retry => <>(pc = "done"))

C10_Witness ==
    /\ Succeeded /\ retry
    /\ spawned >= 1
    /\ \E n \in SpawnNames : n \in Range(dir) /\ StrToNum(n).val \in tids
    /\ passes >= 4

(***************************************************************************)
(* Vocabulary of the claims about both entry points.                       *)
(***************************************************************************)
\* the error codes the claims name
IOErrorCode == "EIO"
InvalidArgumentCode == "EINVAL"
ParseErrorCode == "EINVAL"

\* a name that is neither "." nor ".." nor a non-negative decimal number,
\* that is a text of digits only
BadName(n) ==
    /\ n \notin {Dot, DotDot}
    /\ ~(n # <<>> /\ \A i \in 1..Len(n) : n[i] \in Digits)

\* the line begins with the field name and a colon
HasField(line, name) ==
    Len(line) > Len(name) /\ SubSeq(line, 1, Len(name) + 1) = name \o <<":">>

\* the first line of the record that has the field, 0 if none has
FirstField ==
    IF \E i \in 1..Len(lines) : HasField(lines[i], fname)
    THEN CHOOSE i \in 1..Len(lines) :
             /\ HasField(lines[i], fname)
             /\ \A j \in 1..(i - 1) : ~HasField(lines[j], fname)
    ELSE 0

\* C11: in both entry points a directory entry or a status line is read, and
\* func is invoked, only after one open and a successful ensure_procfs on the
\* handle; a call that failed with ENAMETOOLONG has opened nothing; a call
\* whose open or ensure_procfs failed has read nothing and invoked nothing.
C11_NothingReadBeforeAuth ==
    /\ (reads > 0 \/ Invoked \/ lineNo > 0) => (auth.res = "ok" /\ opens = 1)
    /\ (result.err = "ENAMETOOLONG" \/ fresult.err = "ENAMETOOLONG") => opens = 0
    /\ ((pc = "done" \/ fpc = "done") /\ auth.res # "ok")
         => (reads = 0 /\ ~Invoked /\ lineNo = 0)

C11_Witness ==
    /\ pc = "done"
    /\ opens = 1
    /\ auth.res = "EIO"
    /\ result = Failure("EIO")
    /\ reads = 0 /\ ~Invoked

\* C12: when for_each_tid or get_pid_status_field has returned, on whatever
\* path, the handle it opened is closed; while it reads, the handle is open.
C12_HandlesClosedOnReturn ==
    /\ pc = "done" => ~dirOpen
    /\ fpc = "done" => ~fileOpen
    /\ pc \in {"auth", "scan"} => dirOpen
    /\ fpc \in {"auth", "scan"} => fileOpen

C12_Witness ==
    /\ pc = "done"
    /\ cbErr # "none"
    /\ opens = 1
    /\ ~dirOpen
    /\ cursor < Len(stream)

\* C13 as stated: once an entry whose name is neither ".", ".." nor a
\* non-negative decimal number (a name that is no number, or a negative
\* number) has been scanned, the call has failed with the parse error and
\* that entry is the last one read; scanning it invokes func for no id, and
\* after the return no entry is read and func is not invoked.
C13_BadEntryFailsCall ==
    /\ [](\A i \in 1..cursor :
            BadName(stream[i])
            => /\ pc = "done"
               /\ result = Failure(ParseErrorCode)
               /\ cursor = i
               /\ cbErr = "none")
    /\ [][(pc = "scan" /\ cursor < Len(stream) /\ cursor' = cursor + 1
             /\ BadName(Entry))
            => calls' = calls /\ tids' = tids]_vars
    /\ [][(pc = "done" /\ result = Failure(ParseErrorCode) /\ pc' = "done")
            => UNCHANGED <<cursor, reads, calls, tids>>]_vars

\* C14 as stated: ensure_procfs on a valid handle whose fstat succeeds answers
\* success exactly when the major number is zero, and for any other major
\* number an error that is neither the IOError code nor the InvalidArgument
\* code.
C14_NotProcfsIsDistinct ==
    (auth.res # "none" /\ auth.fd >= 0 /\ auth.statOk)
    => /\ (auth.res = "ok") <=> (auth.major = 0)
       /\ auth.major # 0 => auth.res \notin {IOErrorCode, InvalidArgumentCode}

\* C15: when the record has a line with the field, the call reads up to the
\* first such line and no further, and returns that line's number, or the
\* parse error when the rest of that line is no number.
C15_FirstMatchDecides ==
    FirstField > 0
    => /\ lineNo <= FirstField
       /\ (fpc = "done" /\ auth.res = "ok" /\ ~readErr)
            => /\ lineNo = FirstField
               /\ LET num == StrToNum(FieldValue(lines[FirstField], fname))
                  IN fresult = IF num.ok THEN Value(num.val)
                               ELSE ValueFailure(ParseErrorCode)

C15_Witness ==
    /\ fpc = "done"
    /\ fname = <<"T">>
    /\ Len(lines) = 3
    /\ lines[1] = <<"T", "g", ":", "\t", "7", "\n">>
    /\ FirstField = 2
    /\ HasField(lines[3], fname)
    /\ fresult = Value(12)

\* C16: when no line of the record has the field, the call never returns a
\* value; when every read succeeds it reads all lines and fails with the
\* IOError code.
C16_MissingFieldIsIOError ==
    FirstField = 0
    => /\ fresult.kind # "ok"
       /\ (fpc = "done" /\ auth.res = "ok" /\ ~readErr)
            => /\ lineNo = Len(lines)
               /\ fresult = ValueFailure(IOErrorCode)

C16_Witness ==
    /\ fpc = "done"
    /\ FirstField = 0
    /\ fname = <<"T">>
    /\ Len(lines) = 3
    /\ lineNo = 3
    /\ \E i \in 1..3 : lines[i] = <<"T", "g", ":", "\t", "7", "\n">>
    /\ fresult = ValueFailure(IOErrorCode)

\* C17: every call of for_each_tid begins with an empty tids and tids holds
\* only ids claimed in this call; an entry whose id is not in this call's tids
\* is offered to func whether or not another call, earlier or running beside
\* this one, holds the id in its own set; so a call whose reads all succeed
\* and whose func always returns true has offered every listed id that other
\* calls claimed.
C17_CallScopedSet ==
    /\ [](pc \in {"open", "auth"} => tids = {})
    /\ [](tids \subseteq claimed)
    /\ [][(pc = "scan" /\ cursor < Len(stream) /\ cursor' = cursor + 1
             /\ StrToNum(Entry).ok /\ StrToNum(Entry).val \notin tids)
            => calls'[StrToNum(Entry).val] = calls[StrToNum(Entry).val] + 1]_vars
    /\ []((Succeeded /\ Unchanging /\ ReadsAnswered /\ AlwaysClaimed)
            => \A t \in others \cap ListedNow : calls[t] = 1 /\ t \in tids)

C17_Witness ==
    /\ callNo = 2
    /\ Succeeded /\ Unchanging /\ ReadsAnswered /\ AlwaysClaimed
    /\ others = {1, 2}
    /\ tids = {1, 2}
    /\ calls[1] = 1 /\ calls[2] = 1

\* C18: at every point of a call tids is exactly the set of ids for which
\* func has returned true in this call; it never loses an id; and reading "."
\* or ".." neither invokes func nor changes tids.
C18_SetIsTheClaimedIds ==
    /\ [](tids = claimed)
    /\ [][tids \subseteq tids']_vars
    /\ [][(pc = "scan" /\ cursor < Len(stream) /\ cursor' = cursor + 1
             /\ Entry \in {Dot, DotDot})
            => UNCHANGED <<calls, tids, pc>>]_vars

C18_Witness ==
    /\ pc = "scan"
    /\ tids = {1}
    /\ declined[2] >= 1
    /\ passes >= 1
    /\ cursor >= 3

\* C19: over an unchanging directory whose reads all succeed, with a func that
\* always returns true, a successful call in either mode has offered every
\* listed id and tids is the set of all listed ids.
C19_EveryListedIdClaimed ==
    (Succeeded /\ Unchanging /\ ReadsAnswered /\ AlwaysClaimed)
    => /\ tids = ListedNow
       /\ \A t \in ListedNow : calls[t] >= 1

C19_Witness ==
    /\ Succeeded /\ ~retry /\ Unchanging /\ ReadsAnswered /\ AlwaysClaimed
    /\ ListedNow = {1, 2}
    /\ tids = {1, 2}

\* C20: when a thread whose id is in tids exits and a new thread takes the
\* same id, func is not invoked for the new thread in this call: the id stays
\* in tids and every later scan of its entry skips it.
C20_ReusedIdSkipped ==
    /\ [](reborn \subseteq tids)
    /\ [][reborn \subseteq reborn'
            /\ \A t \in reborn : calls'[t] = calls[t]]_vars

C20_Witness ==
    /\ pc = "scan"
    /\ retry
    /\ passes >= 1
    /\ cursor >= 3
    /\ StrToNum(stream[cursor]).ok
    /\ StrToNum(stream[cursor]).val \in reborn
    /\ lastProd

====
